---- MODULE Spec2Model ----
(***************************************************************************)
(* Model of backend/app/views.py: the three HTTP handlers of the image     *)
(* moderation service over a MongoDB store.                                *)
(*                                                                         *)
(*   PUT /images/<image_id>   update_image_status                          *)
(*   GET /groups              get_groups_with_images                       *)
(*   GET /statistics          get_statistics                               *)
(*                                                                         *)
(* Time is counted in ticks of the resolution of a stored date (for BSON a  *)
(* millisecond): datetime.utcnow() read twice within one tick stores one   *)
(* value.                                                                  *)
(***************************************************************************)
EXTENDS Integers, Sequences, FiniteSets, TLC

VARIABLES
    images,      \* the images collection: _id -> document
    groups,      \* the groups collection: _id -> document
    now,         \* the server clock (datetime.utcnow()), in stored-date units
    req,         \* PUT /images handlers in flight, one record per worker
    groupsResp,  \* the last GET /groups response each client received
    statsResp    \* the last GET /statistics response

vars == <<images, groups, now, req, groupsResp, statsResp>>

(***************************************************************************)
(* Bounds of the model.                                                    *)
(***************************************************************************)
MaxClock == 2          \* the clock takes MaxClock values
TicksPerDay == 2       \* the clock ticks of one day

\* The PUT handlers that may be in flight together.
Workers == {"w1", "w2"}

(***************************************************************************)
(* Configuration (config.config) and Python values.                        *)
(***************************************************************************)
None == "None"

VALID_STATUSES == <<"new", "review", "accepted", "deleted">>

ValidStatusSet == {VALID_STATUSES[i] : i \in 1..Len(VALID_STATUSES)}

(***************************************************************************)
(* bson.ObjectId(image_id): a string of exactly 24 hexadecimal digits;     *)
(* the identifier is the 12 bytes it spells (letter case is dropped),      *)
(* held here as the number those bytes are.                                *)
(***************************************************************************)
OidLen == 24

HexDigits == {"0", "1", "2", "3", "4", "5", "6", "7", "8", "9",
              "a", "b", "c", "d", "e", "f", "A", "B", "C", "D", "E", "F"}

HexValue(c) ==
    CASE c = "0" -> 0 [] c = "1" -> 1 [] c = "2" -> 2 [] c = "3" -> 3
      [] c = "4" -> 4 [] c = "5" -> 5 [] c = "6" -> 6 [] c = "7" -> 7
      [] c = "8" -> 8 [] c = "9" -> 9
      [] c \in {"a", "A"} -> 10 [] c \in {"b", "B"} -> 11
      [] c \in {"c", "C"} -> 12 [] c \in {"d", "D"} -> 13
      [] c \in {"e", "E"} -> 14 [] c \in {"f", "F"} -> 15

IsValidObjectId(s) == Len(s) = OidLen /\ \A i \in 1..Len(s) : s[i] \in HexDigits

RECURSIVE BytesFromHex(_, _)
BytesFromHex(s, n) ==
    IF n = 0 THEN 0 ELSE 16 * BytesFromHex(s, n - 1) + HexValue(s[n])

ObjectId(s) == BytesFromHex(s, Len(s))

\* An identifier string of n characters ending in c.
IdString(n, c) == [i \in 1..n |-> IF i = n THEN c ELSE "0"]

Oid1 == ObjectId(IdString(OidLen, "a"))
Oid2 == ObjectId(IdString(OidLen, "1"))

\* The <image_id> path values the clients send.
ImageIdInputs ==
    { IdString(OidLen, "a"),         \* the first image of the store
      IdString(OidLen, "A"),         \* the same identifier in upper case
      IdString(OidLen, "1"),         \* the second image
      IdString(OidLen, "3"),         \* well formed, never in the store
      IdString(OidLen, "g"),         \* not hexadecimal
      IdString(OidLen - 1, "a") }    \* too short

\* The "status" values of the request bodies (None: the key is missing).
StatusInputs == {"new", "review", "bogus", None}

\* The inputs of the requests that race each other on the first image.
RacingIdInputs ==
    {IdString(OidLen, "a"), IdString(OidLen, "3"), IdString(OidLen, "g")}

RacingStatusInputs == {"new", "review", "bogus"}

(***************************************************************************)
(* Responses.                                                              *)
(***************************************************************************)
NoResponse == [code |-> 0, name |-> "", message |-> ""]

ErrorResponse(code, name) == [code |-> code, name |-> name, message |-> ""]

MessageResponse(message) == [code |-> 200, name |-> "", message |-> message]

RespInvalidObjectId == ErrorResponse(400, "Invalid ObjectId")
RespInvalidStatus == ErrorResponse(400, "Invalid status")
RespImageNotFound == ErrorResponse(400, "Image not found")
RespMongoException == ErrorResponse(500, "MongoDB exeption occured")
RespUpdated == MessageResponse("Image status updated")
RespSame == MessageResponse("Requested status is the same as current")

(***************************************************************************)
(* The store operations update_image_status issues.                        *)
(***************************************************************************)
\* images_collection.find_one({'_id': image_id}, {'status': 1}) and the
\* projection of its status.
FindStatus(coll, image_id) ==
    IF image_id \in DOMAIN coll THEN coll[image_id].status ELSE None

\* A $set that leaves last_updated_at out.
SetFieldsStatusOnly(doc, new_status, ts) == [doc EXCEPT !.status = new_status]

\* The document after {'$set': {'status': ..., 'last_updated_at': ...}}.
SetFields(doc, new_status, ts) ==
    [doc EXCEPT !.status = new_status, !.last_updated_at = ts]

\* An update whose filter is left empty: every document is set.
UpdateOneUnfiltered(coll, image_id, new_status, ts) ==
    [o \in DOMAIN coll |-> SetFields(coll[o], new_status, ts)]

\* images_collection.update_one({'_id': image_id}, {'$set': ...}): no upsert.
UpdateOne(coll, image_id, new_status, ts) ==
    IF image_id \in DOMAIN coll
    THEN [coll EXCEPT ![image_id] = SetFields(coll[image_id], new_status, ts)]
    ELSE coll

\* result.modified_count: the documents the update actually changed.
ModifiedCount(coll, image_id, new_status, ts) ==
    IF image_id \in DOMAIN coll
       /\ SetFields(coll[image_id], new_status, ts) # coll[image_id]
    THEN 1 ELSE 0

(***************************************************************************)
(* PUT /images/<image_id>                                                  *)
(***************************************************************************)
IdleReq ==
    [pc |-> "done", image_id |-> 0, new_status |-> None, ts |-> 0,
     nfind |-> 0, nupdate |-> 0, response |-> NoResponse]

\* The two checks in the other order.
ValidateRequestStatusFirst(id_str, new_status) ==
    IF new_status \notin ValidStatusSet THEN RespInvalidStatus
    ELSE IF ~IsValidObjectId(id_str) THEN RespInvalidObjectId
    ELSE NoResponse

\* The checks made before the store is touched: the response they end the
\* request with, or NoResponse when the request goes on.
ValidateRequest(id_str, new_status) ==
    IF ~IsValidObjectId(id_str) THEN RespInvalidObjectId
    ELSE IF new_status \notin ValidStatusSet THEN RespInvalidStatus
    ELSE NoResponse

\* A handler that writes without comparing.
NeedsUpdateAlways(new_status, current_status) == TRUE

\* new_status != current_status
NeedsUpdate(new_status, current_status) == new_status # current_status

\* The response after update_one.
UpdateResponse(modified_count) ==
    IF modified_count # 0 THEN RespUpdated ELSE RespImageNotFound

\* A request arrives: the identifier is parsed and the status validated.
BeginPut(w, id_str, new_status) ==
    /\ req[w].pc = "done"
    /\ LET r == ValidateRequest(id_str, new_status) IN
         req' = [req EXCEPT ![w] =
                    IF r # NoResponse
                    THEN [IdleReq EXCEPT !.response = r]
                    ELSE [IdleReq EXCEPT !.pc = "fetch",
                                         !.image_id = ObjectId(id_str),
                                         !.new_status = new_status]]
    /\ UNCHANGED <<images, groups, now, groupsResp, statsResp>>

\* find_one returns; the statuses are compared.
Fetch(w) ==
    /\ req[w].pc = "fetch"
    /\ LET current_status == FindStatus(images, req[w].image_id) IN
         req' = [req EXCEPT ![w] =
                    IF NeedsUpdate(req[w].new_status, current_status)
                    THEN [@ EXCEPT !.pc = "stamp", !.nfind = @ + 1]
                    ELSE [IdleReq EXCEPT !.nfind = req[w].nfind + 1,
                                         !.response = RespSame]]
    /\ UNCHANGED <<images, groups, now, groupsResp, statsResp>>

\* datetime.utcnow() is read while the update document is built.
Stamp(w) ==
    /\ req[w].pc = "stamp"
    /\ req' = [req EXCEPT ![w] = [@ EXCEPT !.pc = "update", !.ts = now]]
    /\ UNCHANGED <<images, groups, now, groupsResp, statsResp>>

\* update_one is applied by the store and its result mapped to a response.
Update(w) ==
    /\ req[w].pc = "update"
    /\ images' = UpdateOne(images, req[w].image_id, req[w].new_status, req[w].ts)
    /\ req' = [req EXCEPT ![w] =
                  [IdleReq EXCEPT
                      !.nfind = req[w].nfind,
                      !.nupdate = req[w].nupdate + 1,
                      !.response = UpdateResponse(
                          ModifiedCount(images, req[w].image_id,
                                        req[w].new_status, req[w].ts))]]
    /\ UNCHANGED <<groups, now, groupsResp, statsResp>>

\* find_one or update_one raises: the store is left as it was.
StoreFailure(w) ==
    /\ req[w].pc \in {"fetch", "update"}
    /\ req' = [req EXCEPT ![w] =
                  [IdleReq EXCEPT
                      !.nfind = req[w].nfind + (IF req[w].pc = "fetch" THEN 1 ELSE 0),
                      !.nupdate = req[w].nupdate + (IF req[w].pc = "update" THEN 1 ELSE 0),
                      !.response = RespMongoException]]
    /\ UNCHANGED <<images, groups, now, groupsResp, statsResp>>

(***************************************************************************)
(* The environment: the clock, and the systems that own the collections.   *)
(***************************************************************************)
Tick(limit) ==
    /\ now < limit
    /\ now' = now + 1
    /\ UNCHANGED <<images, groups, req, groupsResp, statsResp>>

ExternalDelete(image_id) ==
    /\ image_id \in DOMAIN images
    /\ images' = [o \in DOMAIN images \ {image_id} |-> images[o]]
    /\ UNCHANGED <<groups, now, req, groupsResp, statsResp>>

(***************************************************************************)
(* The store of the PUT specifications: two images of one group, written   *)
(* before the clock's first value.                                         *)
(***************************************************************************)
ImageDoc(status, group_id, created_at, last_updated_at) ==
    [status |-> status, group_id |-> group_id,
     created_at |-> created_at, last_updated_at |-> last_updated_at]

InitPut ==
    /\ now = 1
    /\ images = (Oid1 :> ImageDoc("accepted", "g1", 0, 0))
                @@ (Oid2 :> ImageDoc("new", "g1", 0, 0))
    /\ groups = ("g1" :> [name |-> "a"])
    /\ req = [w \in Workers |-> IdleReq]
    /\ groupsResp = <<>>
    /\ statsResp = <<>>

NextPut ==
    \/ \E w \in Workers, id_str \in RacingIdInputs, s \in RacingStatusInputs :
          BeginPut(w, id_str, s)
    \/ \E w \in Workers : Fetch(w)
    \/ \E w \in Workers : Stamp(w)
    \/ \E w \in Workers : Update(w)
    \/ \E w \in Workers : StoreFailure(w)
    \/ \E o \in {Oid1, Oid2} : ExternalDelete(o)
    \/ Tick(MaxClock)

SpecPut == InitPut /\ [][NextPut]_vars

(***************************************************************************)
(* The same handler with its requests served one at a time: a request      *)
(* starts, and the collection's owners act, only while no other request    *)
(* is in flight.                                                           *)
(***************************************************************************)
NextPutSeq ==
    \/ \E id_str \in ImageIdInputs, s \in StatusInputs : BeginPut("w1", id_str, s)
    \/ Fetch("w1")
    \/ Stamp("w1")
    \/ Update("w1")
    \/ StoreFailure("w1")
    \/ \E o \in {Oid1, Oid2} : req["w1"].pc = "done" /\ ExternalDelete(o)
    \/ Tick(MaxClock)

SpecPutSeq == InitPut /\ [][NextPutSeq]_vars

(***************************************************************************)
(* GET /groups: the query string.  request.args holds the parameters that  *)
(* were sent; numbers arrive as strings of characters.                     *)
(***************************************************************************)
\* The configured page size (config.config); any positive size will do.
DEFAULT_PAGINATION_NUMBER_OF_GROUPS_TO_RETURN == 2

NoArgs == <<>>

\* request.args.get(k) is truthy: the parameter was sent and is not empty.
Truthy(args, k) == k \in DOMAIN args /\ args[k] # <<>>

\* The same for status, whose values are held as whole strings.
TruthyStatus(args) == "status" \in DOMAIN args /\ args["status"] # ""

\* markupsafe.escape on a status string: the HTML metacharacters are
\* replaced by entities, any other string is returned as it is.
Escape(s) ==
    CASE s = "<new>" -> "&lt;new&gt;"
      [] s = "new&" -> "new&amp;"
      [] OTHER -> s

\* markupsafe.escape on a string of characters.
EscapeChar(c) ==
    CASE c = "&" -> <<"&", "a", "m", "p", ";">>
      [] c = "<" -> <<"&", "l", "t", ";">>
      [] c = ">" -> <<"&", "g", "t", ";">>
      [] OTHER -> <<c>>

RECURSIVE EscapeChars(_)
EscapeChars(s) ==
    IF s = <<>> THEN <<>> ELSE EscapeChar(Head(s)) \o EscapeChars(Tail(s))

Digits == {"0", "1", "2", "3", "4", "5", "6", "7", "8", "9"}

DigitValue(c) ==
    CASE c = "0" -> 0 [] c = "1" -> 1 [] c = "2" -> 2 [] c = "3" -> 3
      [] c = "4" -> 4 [] c = "5" -> 5 [] c = "6" -> 6 [] c = "7" -> 7
      [] c = "8" -> 8 [] c = "9" -> 9

Unsigned(s) == IF s # <<>> /\ Head(s) \in {"+", "-"} THEN Tail(s) ELSE s

\* int(s) succeeds: an optional sign and at least one digit.
IsIntLiteral(s) ==
    /\ Unsigned(s) # <<>>
    /\ \A i \in 1..Len(Unsigned(s)) : Unsigned(s)[i] \in Digits

RECURSIVE DecimalValue(_, _)
DecimalValue(s, n) ==
    IF n = 0 THEN 0 ELSE 10 * DecimalValue(s, n - 1) + DigitValue(s[n])

\* int(s) for a string int() accepts.
ParseInt(s) ==
    IF Head(s) = "-"
    THEN 0 - DecimalValue(Unsigned(s), Len(Unsigned(s)))
    ELSE DecimalValue(Unsigned(s), Len(Unsigned(s)))

(***************************************************************************)
(* The aggregation pipeline, as the list of stages the handler builds, and *)
(* what the store computes for it.  Where MongoDB leaves an order open     *)
(* (documents that compare equal under a $sort, the output of $group)      *)
(* every order is an outcome.                                              *)
(***************************************************************************)
Stage(op, arg) == [op |-> op, arg |-> arg]

\* The stages without the closing sort by name.
BasePipelineNoNameSort ==
    << Stage("$lookup", "images"),
       Stage("$unwind", "$images"),
       Stage("$sort", "images.last_updated_at"),
       Stage("$group", "$_id") >>

\* pipeline = [...]: the five stages every request starts from.
BasePipeline ==
    << Stage("$lookup", "images"),
       Stage("$unwind", "$images"),
       Stage("$sort", "images.last_updated_at"),
       Stage("$group", "$_id"),
       Stage("$sort", "name") >>

\* list.insert(index, x)
ListInsert(list, index, x) ==
    SubSeq(list, 1, index) \o <<x>> \o SubSeq(list, index + 1, Len(list))

\* The filter stage put behind the $group stage.
InsertFilterAfterGroup(pipeline, status_filter) ==
    ListInsert(pipeline, 4, Stage("$match", status_filter))

\* pipeline.insert(2, {'$match': {'images.status': status_filter}})
InsertFilter(pipeline, status_filter) ==
    ListInsert(pipeline, 2, Stage("$match", status_filter))

\* pipeline.extend([{'$skip': skip}, {'$limit': limit}])
ExtendPagination(pipeline, page, groups_per_page) ==
    pipeline \o << Stage("$skip", page * groups_per_page),
                   Stage("$limit", groups_per_page) >>

\* The documents of a collection in their natural order (by _id).
RECURSIVE NaturalOrder(_, _)
NaturalOrder(coll, ids) ==
    IF ids = {} THEN <<>>
    ELSE LET first == CHOOSE i \in ids : \A j \in ids : i <= j
         IN  <<[_id |-> first] @@ coll[first]>> \o NaturalOrder(coll, ids \ {first})

Documents(coll) == NaturalOrder(coll, DOMAIN coll)

Bijections(n) ==
    {f \in [1..n -> 1..n] : \A i, j \in 1..n : f[i] = f[j] => i = j}

\* Every arrangement of docs in ascending order of their keys (keys[i] is
\* the key of docs[i]); documents of equal keys come in any order.
Arrangements(docs, keys) ==
    { [i \in 1..Len(docs) |-> docs[f[i]]] :
        f \in { g \in Bijections(Len(docs)) :
                  \A i, j \in 1..Len(docs) : i < j => keys[g[i]] <= keys[g[j]] } }

\* Strings are ordered by their code points; the names here are one letter.
CodePoint(c) ==
    CASE c = "a" -> 97 [] c = "b" -> 98 [] c = "c" -> 99 [] c = "d" -> 100

\* The sort key of the array (or unwound) field images.last_updated_at in a
\* descending sort: its largest element.
RECURSIVE MaxLastUpdated(_)
MaxLastUpdated(imgs) ==
    IF imgs = <<>> THEN -1
    ELSE LET rest == MaxLastUpdated(Tail(imgs))
         IN  IF Head(imgs).last_updated_at > rest
             THEN Head(imgs).last_updated_at ELSE rest

\* {'$lookup': {'from': 'images', 'localField': '_id',
\*              'foreignField': 'group_id', 'as': 'images'}}
Lookup(docs, image_coll) ==
    [i \in 1..Len(docs) |->
        [_id |-> docs[i]._id, name |-> docs[i].name,
         images |-> LET Joined(img) == img.group_id = docs[i]._id
                    IN  SelectSeq(Documents(image_coll), Joined)]]

\* {'$unwind': '$images'}: one document per element; none for an empty array.
RECURSIVE Unwind(_)
Unwind(docs) ==
    IF docs = <<>> THEN <<>>
    ELSE [i \in 1..Len(Head(docs).images) |->
             [Head(docs) EXCEPT !.images = <<Head(docs).images[i]>>]]
         \o Unwind(Tail(docs))

\* {'$match': {'images.status': status}}
Match(docs, status) ==
    LET Matches(d) == \E i \in 1..Len(d.images) : d.images[i].status = status
    IN  SelectSeq(docs, Matches)

\* {'$group': {'_id': '$_id', 'name': {'$first': '$name'},
\*             'images': {'$push': '$images'}, 'count': {'$sum': 1}}}
\* in the order the groups are first met.
RECURSIVE GroupById(_, _)
GroupById(docs, acc) ==
    IF docs = <<>> THEN acc
    ELSE LET d == Head(docs)
             at == {i \in 1..Len(acc) : acc[i]._id = d._id}
         IN  IF at = {}
             THEN GroupById(Tail(docs),
                     Append(acc, [_id |-> d._id, name |-> d.name,
                                  images |-> d.images, count |-> 1]))
             ELSE LET i == CHOOSE k \in at : TRUE
                  IN  GroupById(Tail(docs),
                         [acc EXCEPT ![i] =
                             [@ EXCEPT !.images = @ \o d.images,
                                       !.count = @ + 1]])

Failed == [failed |-> TRUE, docs |-> <<>>]

Returned(docs) == [failed |-> FALSE, docs |-> docs]

\* The outcomes of one stage on the documents that reach it.
StageOutcomes(stage, docs, image_coll) ==
    CASE stage.op = "$lookup" -> {Returned(Lookup(docs, image_coll))}
      [] stage.op = "$unwind" -> {Returned(Unwind(docs))}
      [] stage.op = "$match" -> {Returned(Match(docs, stage.arg))}
      [] stage.op = "$sort" /\ stage.arg = "images.last_updated_at" ->
            {Returned(s) : s \in Arrangements(docs,
                [i \in 1..Len(docs) |-> 0 - MaxLastUpdated(docs[i].images)])}
      [] stage.op = "$sort" /\ stage.arg = "name" ->
            {Returned(s) : s \in Arrangements(docs,
                [i \in 1..Len(docs) |-> CodePoint(docs[i].name)])}
      [] stage.op = "$group" ->
            LET grouped == GroupById(docs, <<>>)
            IN  {Returned(s) : s \in Arrangements(grouped,
                                      [i \in 1..Len(grouped) |-> 0])}
      [] stage.op = "$skip" ->
            {Returned(SubSeq(docs, stage.arg + 1, Len(docs)))}
      [] stage.op = "$limit" ->
            {Returned(SubSeq(docs, 1, IF stage.arg < Len(docs)
                                      THEN stage.arg ELSE Len(docs)))}

\* The server parses the pipeline before it runs it: $skip takes a
\* non-negative number and $limit a positive one, or the command fails.
PipelineIsValid(pipeline) ==
    \A i \in 1..Len(pipeline) :
        /\ pipeline[i].op = "$skip" => pipeline[i].arg >= 0
        /\ pipeline[i].op = "$limit" => pipeline[i].arg > 0

RECURSIVE RunStages(_, _, _)
RunStages(pipeline, outcomes, image_coll) ==
    IF pipeline = <<>> THEN outcomes
    ELSE RunStages(Tail(pipeline),
            UNION { IF o.failed THEN {o}
                    ELSE StageOutcomes(Head(pipeline), o.docs, image_coll)
                    : o \in outcomes },
            image_coll)

\* groups_collection.aggregate(pipeline): every result the store may give.
Aggregate(group_coll, image_coll, pipeline) ==
    IF ~PipelineIsValid(pipeline) THEN {Failed}
    ELSE RunStages(pipeline, {Returned(Documents(group_coll))}, image_coll)

(***************************************************************************)
(* GET /groups                                                             *)
(***************************************************************************)
GroupsResponse(code, name, body) == [code |-> code, name |-> name, body |-> body]

\* status_filter and escape(status_filter) in VALID_STATUSES
StatusFilterAccepted(args) ==
    TruthyStatus(args) /\ Escape(args["status"]) \in ValidStatusSet

\* int(escape(groups_per_page)) succeeds, for
\* groups_per_page = request.args.get('groups_per_page') or the default.
GroupsPerPageParses(args) ==
    Truthy(args, "groups_per_page")
        => IsIntLiteral(EscapeChars(args["groups_per_page"]))

GroupsPerPage(args) ==
    IF Truthy(args, "groups_per_page")
    THEN ParseInt(EscapeChars(args["groups_per_page"]))
    ELSE DEFAULT_PAGINATION_NUMBER_OF_GROUPS_TO_RETURN

PageParses(args) == IsIntLiteral(EscapeChars(args["page"]))

Page(args) == ParseInt(EscapeChars(args["page"]))

\* The pipeline the handler hands to aggregate.
BuildPipeline(args) ==
    LET filtered == IF StatusFilterAccepted(args)
                    THEN InsertFilter(BasePipeline, args["status"])
                    ELSE BasePipeline
    IN  IF Truthy(args, "page")
        THEN ExtendPagination(filtered, Page(args), GroupsPerPage(args))
        ELSE filtered

\* Every response the handler may give to a request.
GroupsResponses(args, group_coll, image_coll) ==
    IF TruthyStatus(args) /\ ~StatusFilterAccepted(args)
    THEN {GroupsResponse(400, "Invalid status", <<>>)}
    ELSE IF Truthy(args, "page") /\ ~(PageParses(args) /\ GroupsPerPageParses(args))
    THEN {GroupsResponse(400, "Invalid values of query parameters", <<>>)}
    ELSE { IF o.failed
           THEN GroupsResponse(500, "Internal Server Error", <<>>)
           ELSE GroupsResponse(200, "", o.docs)
           : o \in Aggregate(group_coll, image_coll, BuildPipeline(args)) }

NoGroupsResponse == [args |-> NoArgs, response |-> GroupsResponse(0, "", <<>>)]

\* The handler reads the store and keeps nothing: one request is followed
\* from each store.
GetGroups(args) ==
    /\ groupsResp = NoGroupsResponse
    /\ \E r \in GroupsResponses(args, groups, images) :
          groupsResp' = [args |-> args, response |-> r]
    /\ UNCHANGED <<images, groups, now, req, statsResp>>

\* The query strings the clients send.
StatusArgs == {NoArgs} \cup {"status" :> s : s \in {"new", "<new>"}}

PageArgs == {NoArgs} \cup {"page" :> p : p \in {<<"0">>, <<"1">>, <<"x">>}}

GroupsPerPageArgs ==
    {NoArgs} \cup {"groups_per_page" :> n : n \in {<<"0">>, <<"1">>, <<"x">>}}

QueryInputs ==
    {a @@ b @@ c : a \in StatusArgs, b \in PageArgs, c \in GroupsPerPageArgs}

\* The store of the GET /groups specification: four groups, two of which
\* may bear the same name and one of which has no image, and four images.
InitGroups ==
    /\ now = MaxClock
    /\ \E n3 \in {"a", "c"} :
         groups = (1 :> [name |-> "b"]) @@ (2 :> [name |-> "a"])
                  @@ (3 :> [name |-> n3]) @@ (4 :> [name |-> "d"])
    /\ \E st \in [1..4 -> {"new", "review"}], at \in [1..2 -> 1..MaxClock] :
         images = [i \in 1..4 |->
                      ImageDoc(st[i], IF i <= 2 THEN 1 ELSE i - 1, 0,
                               IF i <= 2 THEN at[i] ELSE 1)]
    /\ req = [w \in Workers |-> IdleReq]
    /\ groupsResp = NoGroupsResponse
    /\ statsResp = <<>>

NextGroups == \E args \in QueryInputs : GetGroups(args)

SpecGroups == InitGroups /\ [][NextGroups]_vars

(***************************************************************************)
(* GET /statistics                                                         *)
(***************************************************************************)
STATISTIC_NUMBER_OF_DAYS == 30

\* timedelta(days=days), in clock ticks.
Timedelta(days) == days * TicksPerDay

\* A window that leaves its first instant out.
InWindowOpenStart(created_at, start_date, end_date) ==
    created_at > start_date /\ created_at <= end_date

\* {'$match': {'created_at': {'$gte': start_date, '$lte': end_date}}}
InWindow(created_at, start_date, end_date) ==
    created_at >= start_date /\ created_at <= end_date

\* {'$group': {'_id': '$status', 'count': {'$sum': 1}}} and the dictionary
\* {item['_id']: item['count'] for item in items}.
RECURSIVE CountByStatus(_, _)
CountByStatus(docs, acc) ==
    IF docs = <<>> THEN acc
    ELSE LET st == Head(docs).status
         IN  CountByStatus(Tail(docs),
                IF st \in DOMAIN acc
                THEN [acc EXCEPT ![st] = @ + 1]
                ELSE acc @@ (st :> 1))

Statistics(image_coll, end_date) ==
    LET start_date == end_date - Timedelta(STATISTIC_NUMBER_OF_DAYS)
        Recent(d) == InWindow(d.created_at, start_date, end_date)
    IN  CountByStatus(SelectSeq(Documents(image_coll), Recent), <<>>)

NoStatistics == [end_date |-> 0, body |-> <<>>]

\* The handler reads the store and keeps nothing: one request is followed
\* from each store, at any time of the clock.
GetStatistics ==
    /\ statsResp = NoStatistics
    /\ statsResp' = [end_date |-> now, body |-> Statistics(images, now)]
    /\ UNCHANGED <<images, groups, now, req, groupsResp>>

\* The store of the GET /statistics specification: three images created
\* around the two ends of the window of the clock's first value.
StatsClockStart == Timedelta(STATISTIC_NUMBER_OF_DAYS) + 2

InitStats ==
    /\ now = StatsClockStart
    /\ groups = (1 :> [name |-> "a"])
    /\ \E st \in [1..3 -> {"new", "review"}],
          at \in [1..3 -> {1, 2, StatsClockStart, StatsClockStart + 1}] :
         images = [i \in 1..3 |-> ImageDoc(st[i], 1, at[i], at[i])]
    /\ req = [w \in Workers |-> IdleReq]
    /\ groupsResp = NoGroupsResponse
    /\ statsResp = NoStatistics

NextStats ==
    \/ GetStatistics
    \/ Tick(StatsClockStart + MaxClock - 1)

SpecStats == InitStats /\ [][NextStats]_vars

(***************************************************************************)
(* Properties of PUT /images/<image_id>.                                   *)
(***************************************************************************)
\* Every image but image_id is left as it was, no image is created or
\* removed, and of image_id only status and last_updated_at may differ.
OnlyStatusFieldsAltered(image_id) ==
    /\ DOMAIN images' = DOMAIN images
    /\ \A o \in DOMAIN images :
         IF o = image_id
         THEN /\ images'[o].group_id = images[o].group_id
              /\ images'[o].created_at = images[o].created_at
         ELSE images'[o] = images[o]

\* C1: a request whose valid status equals the status find_one read ends
\* with 200 'Requested status is the same as current', has issued no
\* update_one, and leaves every stored document as it was.
C1_SameStatusIsNoOp ==
    [][\A w \in Workers :
          (/\ Fetch(w)
           /\ req[w].image_id \in DOMAIN images
           /\ images[req[w].image_id].status = req[w].new_status)
          => /\ req'[w].pc = "done"
             /\ req'[w].response = RespSame
             /\ req'[w].nupdate = 0
             /\ images' = images]_vars

C1_Witness ==
    \E w \in Workers :
        req[w].response = RespSame /\ req[w].nfind = 1 /\ req[w].nupdate = 0

\* C4: a malformed id ends the request with 400 'Invalid ObjectId' whatever
\* the status; a well-formed id with a status outside VALID_STATUSES ends it
\* with 400 'Invalid status'; either way no find_one and no update_one is
\* issued and the store is unchanged.
C4_ValidationErrors ==
    [][\A w \in Workers, id_str \in ImageIdInputs, s \in StatusInputs :
          (req'[w] # req[w] /\ BeginPut(w, id_str, s)
           /\ (~IsValidObjectId(id_str) \/ s \notin ValidStatusSet))
          => /\ req'[w].response =
                   (IF ~IsValidObjectId(id_str)
                    THEN RespInvalidObjectId ELSE RespInvalidStatus)
             /\ req'[w].pc = "done"
             /\ req'[w].nfind = 0
             /\ req'[w].nupdate = 0
             /\ images' = images]_vars

C4_Witness ==
    \E w \in Workers :
        /\ req[w].response \in {RespInvalidObjectId, RespInvalidStatus}
        /\ req[w].nfind = 0
        /\ req[w].nupdate = 0

\* C2 as claimed: served with no other request interleaved, a PUT of a valid
\* status that differs from the existing image's status answers 200 'Image
\* status updated', the image then has the requested status and a
\* last_updated_at strictly newer than before, and nothing else is altered.
C2_StrictlyNewerTimestamp ==
    [][(Update("w1") /\ req["w1"].image_id \in DOMAIN images)
          => /\ req'["w1"].response = RespUpdated
             /\ images'[req["w1"].image_id].status = req["w1"].new_status
             /\ images'[req["w1"].image_id].last_updated_at
                   > images[req["w1"].image_id].last_updated_at
             /\ OnlyStatusFieldsAltered(req["w1"].image_id)]_vars

\* C2 as amended: the same, with last_updated_at equal to the time the
\* request read for its write, which is not older than (but may equal) the
\* value before the request.
C2_TimestampIsRequestTime ==
    [][(Update("w1") /\ req["w1"].image_id \in DOMAIN images)
          => /\ req'["w1"].response = RespUpdated
             /\ images'[req["w1"].image_id].status = req["w1"].new_status
             /\ images'[req["w1"].image_id].last_updated_at = req["w1"].ts
             /\ images'[req["w1"].image_id].last_updated_at
                   >= images[req["w1"].image_id].last_updated_at
             /\ OnlyStatusFieldsAltered(req["w1"].image_id)]_vars

C2_Witness ==
    /\ req["w1"].response = RespUpdated
    /\ Oid1 \in DOMAIN images
    /\ images[Oid1].status = "review"
    /\ images[Oid1].last_updated_at = now

\* C3: a request that reaches update_one answers 400 'Image not found'
\* exactly when the image is absent at write time, 200 'Image status
\* updated' whenever it is present, and the write creates no document.
C3_NotFoundIffAbsent ==
    [][\A w \in Workers :
          Update(w)
          => /\ (req'[w].response = RespImageNotFound)
                   <=> (req[w].image_id \notin DOMAIN images)
             /\ (req[w].image_id \in DOMAIN images)
                   => (req'[w].response = RespUpdated)
             /\ DOMAIN images' = DOMAIN images]_vars

\* C9: in every step last_updated_at changes only if status changes in that
\* step; a write that finds its status already stored alters nothing and is
\* not answered as an update.
C9_TimestampOnlyWithStatus ==
    [][/\ \A o \in DOMAIN images \cap DOMAIN images' :
            (images'[o].last_updated_at # images[o].last_updated_at)
            => (images'[o].status # images[o].status)
       /\ \A w \in Workers :
            (/\ Update(w)
             /\ req[w].image_id \in DOMAIN images
             /\ images[req[w].image_id].status = req[w].new_status)
            => (images' = images /\ req'[w].response # RespUpdated)]_vars

ImagesWithStatus(g, s) ==
    {i \in DOMAIN images : images[i].group_id = g /\ images[i].status = s}

GroupsWithStatus(s) == {g \in DOMAIN groups : ImagesWithStatus(g, s) # {}}

BodyIds(body) == {body[k]._id : k \in 1..Len(body)}

\* The query without one of its parameters.
Without(args, k) == [x \in DOMAIN args \ {k} |-> args[x]]

NameAscending(body) ==
    \A i, j \in 1..Len(body) :
        i < j => CodePoint(body[i].name) <= CodePoint(body[j].name)

ImagesNewestFirst(body) ==
    \A k \in 1..Len(body) : \A i, j \in 1..Len(body[k].images) :
        i < j => body[k].images[i].last_updated_at
                    >= body[k].images[j].last_updated_at

Position(body, id) == CHOOSE k \in 1..Len(body) : body[k]._id = id

\* The groups in both bodies come in the same order in both; with
\* distinct_names, those of them that differ in name.
SameRelativeOrder(body, other, distinct_names) ==
    \A i, j \in 1..Len(body) :
        (/\ i < j
         /\ distinct_names => body[i].name # body[j].name
         /\ {body[i]._id, body[j]._id} \subseteq BodyIds(other))
        => Position(other, body[i]._id) < Position(other, body[j]._id)

\* The answers the same request without its status filter may get.
UnfilteredBodies ==
    {u.body : u \in {x \in GroupsResponses(Without(groupsResp.args, "status"),
                                           groups, images) : x.code = 200}}

IsNatural(s) == s # <<>> /\ \A i \in 1..Len(s) : s[i] \in Digits

Slice(seq, from, count) ==
    SubSeq(seq, from + 1, IF from + count < Len(seq) THEN from + count ELSE Len(seq))

\* C6: with page = p and groups_per_page = n, non-negative integers (n the
\* configured size when not sent), the answer is 200 with exactly the
\* groups at positions [p*n, p*n+n) of the list the request without page
\* returns, which is empty when p*n is beyond its end.
C6_PageIsSliceOfList ==
    LET a == groupsResp.args
        r == groupsResp.response
    IN  (/\ Truthy(a, "page")
         /\ IsNatural(a["page"])
         /\ "groups_per_page" \in DOMAIN a => IsNatural(a["groups_per_page"])
         /\ "status" \in DOMAIN a => a["status"] \in ValidStatusSet)
        => /\ r.code = 200
           /\ \E u \in GroupsResponses(Without(a, "page"), groups, images) :
                 /\ u.code = 200
                 /\ r.body = Slice(u.body, Page(a) * GroupsPerPage(a),
                                   GroupsPerPage(a))

(***************************************************************************)
(* Properties of GET /statistics.                                          *)
(***************************************************************************)
\* The images with status s created in [end_date - window, end_date].
CreatedInWindow(s, end_date) ==
    {i \in DOMAIN images :
        /\ images[i].status = s
        /\ images[i].created_at >= end_date - STATISTIC_NUMBER_OF_DAYS * TicksPerDay
        /\ images[i].created_at <= end_date}

StoredStatuses == {images[i].status : i \in DOMAIN images}

\* C8: the map has a key for a status exactly when an image with that
\* status was created in [now - window, now], both ends included, its value
\* is the number of those images, and no key has the value 0.
C8_CountsImagesInWindow ==
    statsResp # NoStatistics
    => /\ DOMAIN statsResp.body =
             {s \in StoredStatuses : CreatedInWindow(s, statsResp.end_date) # {}}
       /\ \A s \in DOMAIN statsResp.body :
             /\ statsResp.body[s] = Cardinality(CreatedInWindow(s, statsResp.end_date))
             /\ statsResp.body[s] > 0

\* An answer that counts an image created at the window's first instant and
\* leaves out a status whose only images are outside the window.
C8_Witness ==
    /\ statsResp # NoStatistics
    /\ \E i \in DOMAIN images :
          /\ images[i].created_at
                = statsResp.end_date - STATISTIC_NUMBER_OF_DAYS * TicksPerDay
          /\ images[i].status \in DOMAIN statsResp.body
    /\ \E s \in StoredStatuses : s \notin DOMAIN statsResp.body

====
